---- MODULE Spec2Model ----
(***************************************************************************)
(* Model of the vid-api conversion pipeline:                               *)
(*   ASCIIConverter.convert_video and create_video_from_pngs               *)
(*   (src/vid_core/converter.py) with get_frame_filename                   *)
(*   (src/vid_core/vid_core-utils-py.py).                                  *)
(* One run of convert_video is a sequential process whose position is pc;  *)
(* the video source, the file system and the external encoder are the      *)
(* environment.                                                            *)
(***************************************************************************)
EXTENDS Integers, Sequences, FiniteSets, TLC

\* ------------------------------------------------------------------ bounds
\* Largest frame count the source reports (CAP_PROP_FRAME_COUNT).
MaxTotal == 3
\* Largest number of frames the source actually delivers.
MaxActual == 4

VARIABLES
    config,          \* ConvertConfig flags of the run, and whether a callback was passed
    source,          \* the video container: can it be opened, reported and real length
    encoder,         \* how the external ffmpeg process behaves when it is launched
    pc,              \* position of convert_video
    total_frames,    \* local total_frames
    frame_number,    \* local frame_number
    txt_files,       \* local txt_files
    png_files,       \* local png_files
    mp4_file,        \* local mp4_file
    error,           \* the exception in flight or raised by convert_video
    result,          \* <<>> until convert_video returns, then <<the result dict>>
    disk,            \* files written to output_dir, in write order: name and format
    calls,           \* invocations of progress_callback: positional argument tuples
    reads,           \* number of cap.read() calls
    released,        \* number of cap.release() calls
    assembler_calls, \* number of create_video_from_pngs invocations
    fault,           \* <<>>, or <<the artifact write the file system refused>>
    cancel,          \* <<>>, or <<where the run was when cancellation was signalled>>
    prior,           \* <<>>, or <<what an earlier call of convert_video has left>>
    settings,        \* app.config.Settings as configured (environment, .env)
    requests,        \* the POST /convert/video requests and where their handlers are
    JOBS_STATUS,     \* JOBS_STATUS of each worker process: job id -> entry
    ctor_args,       \* the ConvertConfig an ASCIIConverter is constructed with
    converter,       \* the ASCIIConverter object, once __init__ has run
    glyph,           \* <<>>, or <<the last sample frame_to_ascii has mapped>>
    frame,           \* the decoded frame the methods are called on
    gray,            \* the values of local gray of apply_color_corrections, in order
    ascii_text,      \* <<>>, or <<the text frame frame_to_ascii has returned>>
    png              \* <<>>, or <<what render_frame_png has rendered>>

vars == <<config, source, encoder, pc, total_frames, frame_number, txt_files,
          png_files, mp4_file, error, result, disk, calls, reads, released,
          assembler_calls, fault, cancel, prior, settings, requests, JOBS_STATUS,
          ctor_args, converter, glyph, frame, gray, ascii_text, png>>

\* the state of the HTTP layer (app/routes/convert.py)
web_vars == <<settings, requests, JOBS_STATUS>>

\* what the methods of ASCIIConverter produce for one frame
frame_vars == <<frame, gray, ascii_text, png>>

\* one ASCIIConverter object and the samples it maps
core_vars == <<ctor_args, converter, glyph, frame_vars>>

\* what no step of convert_video reads or writes
outside == <<cancel, prior, web_vars, core_vars>>

\* ------------------------------------------------------------ Python values
\* Python's None
None == "None"

\* A Python number, tagged with its type; its value is num / den.
PyInt(v) == [type |-> "int", num |-> v, den |-> 1]
PyFloat(n, d) == [type |-> "float", num |-> n, den |-> d]

\* a <= b on Python numbers (den > 0)
PyLeq(a, b) == a.num * b.den <= b.num * a.den

\* max(a, b) on ints
Max(a, b) == IF a >= b THEN a ELSE b

Min(a, b) == IF a <= b THEN a ELSE b

\* ----------------------------------------------------------- file names
DigitChar == <<"0", "1", "2", "3", "4", "5", "6", "7", "8", "9">>

\* str(n) for n >= 0
RECURSIVE DecDigits(_)
DecDigits(n) ==
    IF n < 10 THEN DigitChar[n + 1]
    ELSE DecDigits(n \div 10) \o DigitChar[(n % 10) + 1]

\* the format spec :0{w}d : left-pad with zeros to at least w digits
RECURSIVE ZeroPad(_, _)
ZeroPad(ds, w) == IF Len(ds) >= w THEN ds ELSE ZeroPad("0" \o ds, w)

FRAME_TXT_EXT == ".txt"
FRAME_PNG_EXT == ".png"
VIDEO_MP4_EXT == ".mp4"

get_frame_filename_one_based(n, extension) ==
    "frame_" \o ZeroPad(DecDigits(n + 1), 6) \o extension

\* f"frame_{frame_number:06d}{extension}"
get_frame_filename(n, extension) ==
    "frame_" \o ZeroPad(DecDigits(n), 6) \o extension

\* f"ascii_video{extension}"
get_video_filename(extension) == "ascii_video" \o extension

\* ------------------------------------------------------------ HTTP layer
\* number of POST /convert/video requests
MaxRequests == 2
\* largest number of uvicorn worker processes (Settings.WORKERS) and largest
\* configured ceiling (Settings.MAX_CONCURRENT_JOBS)
MaxWorkers == 2

Requests == 1..MaxRequests
Workers == 1..MaxWorkers

\* values str(uuid.uuid4())[:8] can take
JobIds == {"1a2b3c4d", "9f8e7d6c"}

\* widths a client may send in the form
Widths == {9, 10, 240, 241}

\* Settings.MAX_FILE_SIZE, in MB
MAX_FILE_SIZE == 500

\* upload sizes in MB: the largest accepted one and the next
UploadSizes == {MAX_FILE_SIZE, MAX_FILE_SIZE + 1}

\* the bounds ConvertRequest declares for width
MIN_WIDTH == 10
MAX_WIDTH == 240

\* a request no handler has been started for; total and frames are locals of
\* the conversion the handler runs, 0 outside it
NoRequest == [state |-> "new", worker |-> 0, job_id |-> None, width |-> 0,
              size_mb |-> 0, total |-> 0, frames |-> 0, response |-> 0]

\* job_id not in JOBS_STATUS
NoEntry == [status |-> "absent", progress |-> PyFloat(0, 1),
            has_result |-> FALSE, has_error |-> FALSE]

\* Path(tempfile.gettempdir()) / f"vid_api_{job_id}"
temp_dir(job_id) == "/tmp/vid_api_" \o job_id

\* Path(settings.RESULTS_DIR) / job_id
output_dir(job_id) == "./results/" \o job_id

\* ------------------------------------------------ converter construction
\* vid_core/constants.py; a glyph outside ASCII is written as its code point
ASCII_SETS ==
    ("normal" :> <<" ", ".", ":", "-", "=", "+", "*", "#", "%", "@">>) @@
    ("inverted" :> <<"@", "%", "#", "*", "+", "=", "-", ":", ".", " ">>) @@
    ("dots" :> <<" ", "U+2219", "U+00B7", "U+2218", "U+25CB", "U+25CE",
                 "U+25CF">>) @@
    ("gradient" :> <<" ", "U+2591", "U+2592", "U+2593", "U+2588">>) @@
    ("blocks" :> <<" ", "U+2581", "U+2582", "U+2583", "U+2584", "U+2585",
                   "U+2586", "U+2587", "U+2588">>) @@
    ("thick" :> <<" ", "U+2588", "U+2588", "U+2588", "U+2591">>) @@
    ("thin" :> <<" ", "U+00B7", "U+2509", "U+250A", "U+2500">>)

\* ASCIIConverter.RESOLUTIONS
RESOLUTIONS ==
    ("low" :> <<640, 480>>) @@ ("medium" :> <<1280, 720>>) @@
    ("high" :> <<1920, 1080>>) @@ ("4k" :> <<3840, 2160>>)

DEFAULT_CHAR_ASPECT_RATIO == PyFloat(1, 2)

\* style and resolution identifiers a caller may pass: the known ones and one
\* unknown each
Styles == DOMAIN ASCII_SETS \cup {"matrix"}
ResolutionNames == DOMAIN RESOLUTIONS \cup {"8k"}

\* colour strings a caller may pass, as sequences of characters:
\* "#000000", "#00FF00", "00ff00", "#FFF", "#GGGGGG"
Colours ==
    { <<"#", "0", "0", "0", "0", "0", "0">>,
      <<"#", "0", "0", "F", "F", "0", "0">>,
      <<"0", "0", "f", "f", "0", "0">>,
      <<"#", "F", "F", "F">>,
      <<"#", "G", "G", "G", "G", "G", "G">> }

CtorArgs == [style : Styles, resolution : ResolutionNames,
             bg_color : Colours, text_color : Colours, width : Widths,
             brightness : {PyFloat(1, 1)}, contrast : {PyFloat(1, 1)},
             gamma : {PyFloat(1, 1)}]

\* the form defaults of POST /convert/video
DefaultArgs == [style |-> "normal", resolution |-> "high",
                bg_color |-> <<"#", "0", "0", "0", "0", "0", "0">>,
                text_color |-> <<"#", "0", "0", "F", "F", "0", "0">>,
                width |-> 120, brightness |-> PyFloat(1, 1),
                contrast |-> PyFloat(1, 1), gamma |-> PyFloat(1, 1)]

\* no ASCIIConverter has been constructed
NoConverter == [state |-> "none", ascii_set |-> <<>>, bg_color_rgb |-> <<>>,
                text_color_rgb |-> <<>>, height |-> 0, out_width |-> 0,
                out_height |-> 0, warnings |-> <<>>, error |-> None]

\* the samples of a grayscale frame (uint8)
Samples == 0..255

\* hex_color.lstrip('#')
RECURSIVE lstrip_hash(_)
lstrip_hash(s) ==
    IF s # <<>> /\ Head(s) = "#" THEN lstrip_hash(Tail(s)) ELSE s

\* the Python slice s[i:j] of a string, 0 <= i <= j
Slice(s, i, j) ==
    IF i >= Len(s) THEN <<>> ELSE SubSeq(s, i + 1, Min(j, Len(s)))

HexDigits == <<"0", "1", "2", "3", "4", "5", "6", "7", "8", "9",
               "a", "b", "c", "d", "e", "f">>

UpperHexDigits == <<"0", "1", "2", "3", "4", "5", "6", "7", "8", "9",
                    "A", "B", "C", "D", "E", "F">>

IsHexDigit(c) ==
    \E i \in DOMAIN HexDigits : c = HexDigits[i] \/ c = UpperHexDigits[i]

HexDigitValue(c) ==
    (CHOOSE i \in DOMAIN HexDigits :
         c = HexDigits[i] \/ c = UpperHexDigits[i]) - 1

\* the value of a string of hex digits
RECURSIVE HexValue(_)
HexValue(s) ==
    IF s = <<>> THEN 0
    ELSE HexValue(SubSeq(s, 1, Len(s) - 1)) * Len(HexDigits)
             + HexDigitValue(s[Len(s)])

\* int(s, 16) on a string without sign, blank, underscore or prefix:
\* ValueError on the empty string and on a character that is no hex digit
int16(s) ==
    IF s = <<>> \/ \E i \in DOMAIN s : ~IsHexDigit(s[i])
    THEN [raised |-> TRUE, value |-> 0]
    ELSE [raised |-> FALSE, value |-> HexValue(s)]

\* utils.hex_to_rgb: tuple(int(hex_color[i:i+2], 16) for i in (0, 2, 4))
hex_to_rgb(hex_color) ==
    LET h == lstrip_hash(hex_color)
        part == [i \in 1..3 |-> int16(Slice(h, 2 * (i - 1), 2 * i))]
    IN  IF \E i \in 1..3 : part[i].raised
        THEN [raised |-> TRUE, value |-> <<>>]
        ELSE [raised |-> FALSE,
              value |-> <<part[1].value, part[2].value, part[3].value>>]

\* utils.is_valid_hex_color: ^#[0-9a-fA-F]{6}$
is_valid_hex_color(color) ==
    /\ Len(color) = 7
    /\ color[1] = "#"
    /\ \A i \in 2..7 : IsHexDigit(color[i])

\* ASCII_SETS.get(style, ASCII_SETS["normal"])
ascii_set_for(style) ==
    IF style \in DOMAIN ASCII_SETS THEN ASCII_SETS[style]
    ELSE ASCII_SETS["normal"]

\* a ramp index one past the scale: sample * len(ascii_set)
glyph_index_full_length(ascii_set, v) == (v * Len(ascii_set)) \div 255

\* int(pixel * (len(self.ascii_set) - 1)) with pixel = float32(v) / 255.0:
\* the product is within 1e-6 of v * (len - 1) / 255, which is an integer or
\* at least 1/255 away from one, and where it is an integer (v = 0, 85, 170,
\* 255) the float32 quotient is not below the exact one
glyph_index(ascii_set, v) == (v * (Len(ascii_set) - 1)) \div 255

\* ---------------------------------------------------------- frame pipeline
\* BGR pixels of a decoded frame: black, green, mid grey, white
Pixels == { <<0, 0, 0>>, <<0, 255, 0>>, <<128, 128, 128>>, <<255, 255, 255>> }

\* the decoded frames handed to frame_to_ascii: one row of two pixels
Frames == { << <<p, q>> >> : p \in Pixels, q \in Pixels }

\* the frame no method has been called on
NoFrame == << << <<0, 0, 0>>, <<0, 0, 0>> >> >>

\* correction factors a caller may pass (documented range 0.5-2.0)
Factors == { PyFloat(1, 2), PyFloat(1, 1), PyFloat(3, 2), PyFloat(2, 1) }

\* gamma values a caller may pass: those whose lookup table is computable in
\* integers (1 / gamma is 2, 1 or 1/2)
Gammas == { PyFloat(1, 2), PyFloat(1, 1), PyFloat(2, 1) }

\* x == 1.0 on a Python float
IsOne(x) == x.num = x.den

\* np.clip(x, 0, 255).astype(np.uint8) of the rational num / den, den > 0
ClipToUint8(num, den) ==
    IF num < 0 THEN 0 ELSE Min(num \div den, 255)

\* the sum of the samples of a grid
RECURSIVE SumSeq(_)
SumSeq(s) == IF s = <<>> THEN 0 ELSE Head(s) + SumSeq(Tail(s))

GridSum(img) == SumSeq([r \in DOMAIN img |-> SumSeq(img[r])])

GridSize(img) == Len(img) * Len(img[1])

\* cv2.cvtColor(frame, cv2.COLOR_BGR2GRAY): Y = 0.299 R + 0.587 G + 0.114 B,
\* rounded to the nearest integer
cvtColor_BGR2GRAY(frm) ==
    [r \in DOMAIN frm |->
        [c \in DOMAIN frm[r] |->
            (299 * frm[r][c][3] + 587 * frm[r][c][2] + 114 * frm[r][c][1]
                 + 500) \div 1000]]

\* brightness_correction
brightness_correction(img, brightness) ==
    IF IsOne(brightness) THEN img
    ELSE [r \in DOMAIN img |->
             [c \in DOMAIN img[r] |->
                 ClipToUint8(img[r][c] * brightness.num, brightness.den)]]

\* (img - mean) * contrast + mean, clipped, for a mean mean_num / mean_den
contrast_about(img, contrast, mean_num, mean_den) ==
    IF IsOne(contrast) THEN img
    ELSE [r \in DOMAIN img |->
             [c \in DOMAIN img[r] |->
                 ClipToUint8((img[r][c] * mean_den - mean_num) * contrast.num
                                 + mean_num * contrast.den,
                             mean_den * contrast.den)]]

\* a contrast stage that spreads the samples around mid grey
contrast_correction_about_midgrey(img, contrast) ==
    contrast_about(img, contrast, 128, 1)

\* contrast_correction: (img - mean) * contrast + mean with mean = img.mean()
contrast_correction(img, contrast) ==
    contrast_about(img, contrast, GridSum(img), GridSize(img))

\* floor of the square root
ISqrt(n) == CHOOSE k \in 0..255 : k * k <= n /\ n < (k + 1) * (k + 1)

\* table[i] = (((i / 255.0) ** (1.0 / gamma)) * 255).astype(np.uint8)
gamma_table(i, gamma) ==
    IF gamma.num * 2 = gamma.den THEN (i * i) \div 255
    ELSE IF gamma.num = gamma.den * 2 THEN ISqrt(255 * i)
    ELSE i

\* gamma_correction
gamma_correction(img, gamma) ==
    IF IsOne(gamma) THEN img
    ELSE [r \in DOMAIN img |->
             [c \in DOMAIN img[r] |-> gamma_table(img[r][c], gamma)]]

\* the four assignments to gray in apply_color_corrections
color_correction_steps(frm, cfg) ==
    LET y == cvtColor_BGR2GRAY(frm)
        b == brightness_correction(y, cfg.brightness)
        c == contrast_correction(b, cfg.contrast)
        g == gamma_correction(c, cfg.gamma)
    IN  <<y, b, c, g>>

\* apply_color_corrections: the last of them is returned
apply_color_corrections(frm, cfg) == color_correction_steps(frm, cfg)[4]

\* cv2.resize(gray, (width, height)): a grid of height rows and width columns
\* sampled from gray (nearest neighbour; the interpolation of cv2 gives other
\* in-range values on the same grid)
resize(img, width, height) ==
    [r \in 1..height |->
        [c \in 1..width |->
            img[((r - 1) * Len(img)) \div height + 1]
               [((c - 1) * Len(img[1])) \div width + 1]]]

\* the line separator of a text frame
LineSep == "\n"

\* joining that puts the separator after every line
RECURSIVE join_lines_terminated(_)
join_lines_terminated(lines) ==
    IF lines = <<>> THEN <<>>
    ELSE IF Len(lines) = 1 THEN lines[1] \o <<LineSep>>
    ELSE LET m == Len(lines) \div 2
         IN  join_lines_terminated(SubSeq(lines, 1, m))
                 \o join_lines_terminated(SubSeq(lines, m + 1, Len(lines)))

\* "\n".join(lines), on lines that are sequences of glyphs; the list is
\* joined by halves
RECURSIVE join_lines(_)
join_lines(lines) ==
    IF lines = <<>> THEN <<>>
    ELSE IF Len(lines) = 1 THEN lines[1]
    ELSE LET m == Len(lines) \div 2
         IN  join_lines(SubSeq(lines, 1, m)) \o <<LineSep>>
                 \o join_lines(SubSeq(lines, m + 1, Len(lines)))

\* int(width * DEFAULT_CHAR_ASPECT_RATIO)
calculate_height(width) ==
    (width * DEFAULT_CHAR_ASPECT_RATIO.num) \div DEFAULT_CHAR_ASPECT_RATIO.den

\* frame_to_ascii of a converter on a frame: the glyph rows, joined
frame_to_ascii(conv, cfg, frm) ==
    LET resized == resize(apply_color_corrections(frm, cfg), cfg.width,
                          conv.height)
        lines == [r \in DOMAIN resized |->
                     [c \in DOMAIN resized[r] |->
                         conv.ascii_set[glyph_index(conv.ascii_set,
                                                    resized[r][c]) + 1]]]
    IN  join_lines(lines)

\* ------------------------------------------------------------ environment
\* What the ffmpeg process does once subprocess.run launches it: exit code 0,
\* a nonzero exit code, an exception while launching (ffmpeg missing), or it
\* never exits.
EncoderBehaviours == {"exit0", "nonzero", "launch_error", "hang"}

Configs == [save_txt : BOOLEAN, save_png : BOOLEAN, save_mp4 : BOOLEAN,
            has_callback : BOOLEAN]

Sources == [openable : BOOLEAN, total : 0..MaxTotal, actual : 0..MaxActual]

\* cap.isOpened()
isOpened(src) == src.openable

\* ret of cap.read() on the (nreads+1)-th call: a frame while the stream has one
cap_read(src, nreads) == src.openable /\ nreads < src.actual

\* --------------------------------------------------------------- the code
open_check_omitted(src) == FALSE

\* `if not cap.isOpened(): raise ValueError`
OpenRaises(src) == ~isOpened(src)

LoopCond_inclusive(n, total) == n <= total

\* `while frame_number < total_frames`
LoopCond(n, total) == n < total

progress_args_old_order(n, total) ==
    <<PyInt(n), PyInt(total), PyFloat(n, Max(total, 1))>>

\* progress = frame_number / max(total_frames, 1)
\* progress_callback(progress, frame_number, total_frames)
progress_args(n, total) ==
    <<PyFloat(n, Max(total, 1)), PyInt(n), PyInt(total)>>

ShouldAssemble_ignoring_pngs(cfg, pngs) == cfg.save_mp4

\* `if self.config.save_mp4 and png_files`
ShouldAssemble(cfg, pngs) == cfg.save_mp4 /\ pngs # <<>>

create_video_from_pngs_ignoring_exit(enc) ==
    [raised |-> FALSE,
     value |-> IF enc = "launch_error" THEN None
               ELSE get_video_filename(VIDEO_MP4_EXT)]

create_video_from_pngs_raising(enc) ==
    IF enc = "exit0"
    THEN [raised |-> FALSE, value |-> get_video_filename(VIDEO_MP4_EXT)]
    ELSE [raised |-> TRUE, value |-> None]

\* create_video_from_pngs, given how the launched process ends: the output
\* file on exit code 0, None on a nonzero exit code and on any exception.
create_video_from_pngs(enc) ==
    [raised |-> FALSE,
     value |-> IF enc = "exit0" THEN get_video_filename(VIDEO_MP4_EXT)
               ELSE None]

SkipFrameOnError(e) ==
    /\ error' = error
    /\ pc' = "Advance"

\* an exception raised in the body of the try block: it propagates through
\* `finally: cap.release()` and out of convert_video
RaiseInLoop(e) ==
    /\ error' = e
    /\ pc' = "Finally"

\* ------------------------------------------------------------------- Init
\* no ASCIIConverter is being observed
CoreIdle ==
    /\ ctor_args = DefaultArgs
    /\ converter = NoConverter
    /\ glyph = <<>>
    /\ frame = NoFrame
    /\ gray = <<>>
    /\ ascii_text = <<>>
    /\ png = <<>>

\* the state at the entry of convert_video
RunStart ==
    /\ pc = "Opening"
    /\ total_frames = 0
    /\ frame_number = 0
    /\ txt_files = <<>>
    /\ png_files = <<>>
    /\ mp4_file = None
    /\ error = None
    /\ result = <<>>
    /\ disk = <<>>
    /\ calls = <<>>
    /\ reads = 0
    /\ released = 0
    /\ assembler_calls = 0
    /\ fault = <<>>
    /\ cancel = <<>>
    /\ prior = <<>>

\* no HTTP request has arrived
WebIdle ==
    /\ settings = [WORKERS |-> 1, MAX_CONCURRENT_JOBS |-> 1]
    /\ requests = [r \in Requests |-> NoRequest]
    /\ JOBS_STATUS = [w \in Workers |-> [id \in JobIds |-> NoEntry]]

Init ==
    /\ config \in Configs
    /\ source \in Sources
    /\ encoder \in EncoderBehaviours
    /\ RunStart
    /\ WebIdle
    /\ CoreIdle

env == <<config, source, encoder>>

\* ---------------------------------------------------------------- actions
\* cv2.VideoCapture(video_path); raise ValueError unless opened; read the
\* reported frame count; txt_files = png_files = [], frame_number = 0
Open ==
    /\ pc = "Opening"
    /\ IF OpenRaises(source)
       THEN /\ error' = "ValueError"
            /\ pc' = "Failed"
            /\ UNCHANGED total_frames
       ELSE /\ total_frames' = source.total
            /\ pc' = "LoopHead"
            /\ UNCHANGED error
    /\ UNCHANGED <<outside, env, frame_number, txt_files, png_files, mp4_file, result,
                   disk, calls, reads, released, assembler_calls, fault>>

\* loop condition true, cap.read() returns a frame
ReadFrame ==
    /\ pc = "LoopHead"
    /\ LoopCond(frame_number, total_frames)
    /\ cap_read(source, reads)
    /\ reads' = reads + 1
    /\ pc' = "Transform"
    /\ UNCHANGED <<outside, env, total_frames, frame_number, txt_files, png_files,
                   mp4_file, error, result, disk, calls, released,
                   assembler_calls, fault>>

\* loop condition true, cap.read() returns ret = False: break
EndOfStream ==
    /\ pc = "LoopHead"
    /\ LoopCond(frame_number, total_frames)
    /\ ~cap_read(source, reads)
    /\ reads' = reads + 1
    /\ pc' = "Finally"
    /\ UNCHANGED <<outside, env, total_frames, frame_number, txt_files, png_files,
                   mp4_file, error, result, disk, calls, released,
                   assembler_calls, fault>>

\* loop condition false
LoopExit ==
    /\ pc = "LoopHead"
    /\ ~LoopCond(frame_number, total_frames)
    /\ pc' = "Finally"
    /\ UNCHANGED <<outside, env, total_frames, frame_number, txt_files, png_files,
                   mp4_file, error, result, disk, calls, reads, released,
                   assembler_calls, fault>>

\* ascii_text = self.frame_to_ascii(frame)
Transform ==
    /\ pc = "Transform"
    /\ pc' = "SaveTxt"
    /\ UNCHANGED <<outside, env, total_frames, frame_number, txt_files, png_files,
                   mp4_file, error, result, disk, calls, reads, released,
                   assembler_calls, fault>>

\* frame_to_ascii raises (cv2.error on a frame it cannot convert)
TransformRaises ==
    /\ pc = "Transform"
    /\ fault' = <<[stage |-> "transform", frame |-> frame_number]>>
    /\ RaiseInLoop("TransformError")
    /\ UNCHANGED <<outside, env, total_frames, frame_number, txt_files, png_files,
                   mp4_file, result, disk, calls, reads, released,
                   assembler_calls>>

SaveTxt_deferred ==
    /\ pc = "SaveTxt"
    /\ txt_files' = IF config.save_txt
                    THEN Append(txt_files,
                                get_frame_filename(frame_number, FRAME_TXT_EXT))
                    ELSE txt_files
    /\ pc' = "RenderPng"
    /\ UNCHANGED <<outside, env, total_frames, frame_number, png_files, mp4_file,
                   error, result, disk, calls, reads, released,
                   assembler_calls, fault>>

\* `if self.config.save_txt:` save_frame_txt writes the file and returns its path
SaveTxt ==
    /\ pc = "SaveTxt"
    /\ IF config.save_txt
       THEN LET filename == get_frame_filename(frame_number, FRAME_TXT_EXT)
            IN  /\ disk' = Append(disk, [name |-> filename, kind |-> "txt"])
                /\ txt_files' = Append(txt_files, filename)
       ELSE UNCHANGED <<disk, txt_files>>
    /\ pc' = "RenderPng"
    /\ UNCHANGED <<outside, env, total_frames, frame_number, png_files, mp4_file,
                   error, result, calls, reads, released, assembler_calls,
                   fault>>

\* save_frame_txt: write_text raises; logged and re-raised
SaveTxtRaises ==
    /\ pc = "SaveTxt"
    /\ config.save_txt
    /\ fault' = <<[stage |-> "txt", frame |-> frame_number]>>
    /\ RaiseInLoop("TxtWriteError")
    /\ UNCHANGED <<outside, env, total_frames, frame_number, txt_files, png_files,
                   mp4_file, result, disk, calls, reads, released,
                   assembler_calls>>

\* `if self.config.save_png:` render_frame_png saves the image and returns its path
RenderPng ==
    /\ pc = "RenderPng"
    /\ IF config.save_png
       THEN LET filename == get_frame_filename(frame_number, FRAME_PNG_EXT)
            IN  /\ disk' = Append(disk, [name |-> filename, kind |-> "png"])
                /\ png_files' = Append(png_files, filename)
       ELSE UNCHANGED <<disk, png_files>>
    /\ pc' = "Advance"
    /\ UNCHANGED <<outside, env, total_frames, frame_number, txt_files, mp4_file,
                   error, result, calls, reads, released, assembler_calls,
                   fault>>

\* render_frame_png: drawing or img.save raises; logged and re-raised
RenderPngRaises ==
    /\ pc = "RenderPng"
    /\ config.save_png
    /\ fault' = <<[stage |-> "png", frame |-> frame_number]>>
    /\ RaiseInLoop("PngRenderError")
    /\ UNCHANGED <<outside, env, total_frames, frame_number, txt_files, png_files,
                   mp4_file, result, disk, calls, reads, released,
                   assembler_calls>>

\* frame_number += 1; `if progress_callback:` report progress
Advance ==
    /\ pc = "Advance"
    /\ frame_number' = frame_number + 1
    /\ calls' = IF config.has_callback
                THEN Append(calls, progress_args(frame_number', total_frames))
                ELSE calls
    /\ pc' = "LoopHead"
    /\ UNCHANGED <<outside, env, total_frames, txt_files, png_files, mp4_file, error,
                   result, disk, reads, released, assembler_calls, fault>>

Finally_without_release ==
    /\ pc = "Finally"
    /\ pc' = IF error = None THEN "AfterLoop" ELSE "Failed"
    /\ UNCHANGED <<outside, env, total_frames, frame_number, txt_files, png_files,
                   mp4_file, error, result, disk, calls, reads, released,
                   assembler_calls, fault>>

\* finally: cap.release(); an exception in flight leaves convert_video
Finally ==
    /\ pc = "Finally"
    /\ released' = released + 1
    /\ pc' = IF error = None THEN "AfterLoop" ELSE "Failed"
    /\ UNCHANGED <<outside, env, total_frames, frame_number, txt_files, png_files,
                   mp4_file, error, result, disk, calls, reads,
                   assembler_calls, fault>>

\* mp4_file = None; if save_mp4 and png_files: call create_video_from_pngs,
\* which launches ffmpeg with subprocess.run and waits for it
AfterLoop ==
    /\ pc = "AfterLoop"
    /\ IF ShouldAssemble(config, png_files)
       THEN /\ assembler_calls' = assembler_calls + 1
            /\ pc' = "Assembling"
       ELSE /\ pc' = "Return"
            /\ UNCHANGED assembler_calls
    /\ UNCHANGED <<outside, env, total_frames, frame_number, txt_files, png_files,
                   mp4_file, error, result, disk, calls, reads, released,
                   fault>>

\* subprocess.run comes back (the process exited, or launching it raised):
\* create_video_from_pngs returns and mp4_file is assigned.  There is no
\* timeout argument: while the process runs, convert_video waits.
EncoderReturns ==
    /\ pc = "Assembling"
    /\ encoder # "hang"
    /\ LET r == create_video_from_pngs(encoder)
       IN  IF r.raised
           THEN /\ error' = "EncoderError"
                /\ pc' = "Failed"
                /\ UNCHANGED <<mp4_file, disk>>
           ELSE /\ mp4_file' = r.value
                /\ disk' = IF r.value = None THEN disk
                           ELSE Append(disk, [name |-> r.value,
                                              kind |-> "mp4"])
                /\ pc' = "Return"
                /\ UNCHANGED error
    /\ UNCHANGED <<outside, env, total_frames, frame_number, txt_files, png_files,
                   result, calls, reads, released, assembler_calls, fault>>

result_dict_counts_swapped(n, pngs, txts, mp4) ==
    [frames_count |-> n,
     png_files |-> pngs,
     txt_files |-> txts,
     mp4_file |-> mp4,
     png_files_count |-> Len(txts),
     txt_files_count |-> Len(pngs)]

\* the result dict of convert_video
result_dict(n, pngs, txts, mp4) ==
    [frames_count |-> n,
     png_files |-> pngs,
     txt_files |-> txts,
     mp4_file |-> mp4,
     png_files_count |-> Len(pngs),
     txt_files_count |-> Len(txts)]

\* build the result dict and return it
Return ==
    /\ pc = "Return"
    /\ result' = <<result_dict(frame_number, png_files, txt_files, mp4_file)>>
    /\ pc' = "Done"
    /\ UNCHANGED <<outside, env, total_frames, frame_number, txt_files, png_files,
                   mp4_file, error, disk, calls, reads, released,
                   assembler_calls, fault>>

Next ==
    \/ Open
    \/ ReadFrame
    \/ EndOfStream
    \/ LoopExit
    \/ Transform
    \/ TransformRaises
    \/ SaveTxt
    \/ SaveTxtRaises
    \/ RenderPng
    \/ RenderPngRaises
    \/ Advance
    \/ Finally
    \/ AfterLoop
    \/ EncoderReturns
    \/ Return

Spec == Init /\ [][Next]_vars

\* The run is a single sequential thread: whenever a step of it can be taken,
\* one eventually is.
FairSpec == Spec /\ WF_vars(Next)

Terminal == pc \in {"Done", "Failed"}

\* A cancellation signal is raised while the run is processing frames.  No
\* statement of convert_video reads it.
SignalCancel ==
    /\ pc \in {"LoopHead", "Transform", "SaveTxt", "RenderPng", "Advance"}
    /\ cancel = <<>>
    /\ cancel' = <<[reads |-> reads, pc |-> pc]>>
    /\ UNCHANGED <<env, pc, total_frames, frame_number, txt_files, png_files,
                   mp4_file, error, result, disk, calls, reads, released,
                   assembler_calls, fault, prior, web_vars, core_vars>>

\* the run, with a caller that may signal cancellation
CancelNext == Next \/ SignalCancel

CancelSpec == Init /\ [][CancelNext]_vars

\* ------------------------------------------------------- reading the state
\* names of the files of one format written to output_dir, in write order
Written(kind) ==
    LET sel == SelectSeq(disk, LAMBDA f : f.kind = kind)
    IN  [i \in 1..Len(sel) |-> sel[i].name]

\* the name the layout gives frame i (i <= 9): frame_{index:06d} with its extension
LayoutName(i, ext) == "frame_00000" \o DigitChar[i + 1] \o ext

\* the names frame_000000 .. frame_{n-1:06d}, in index order
LayoutNames(n, ext) == [i \in 1..n |-> LayoutName(i - 1, ext)]

NoDuplicates(seq) ==
    \A i, j \in 1..Len(seq) : seq[i] = seq[j] => i = j

Returned == pc = "Done" /\ result # <<>>

\* ------------------------------------------------------------------ claims

\* C1: in a run that returns a result and reported progress, the progress
\* fractions passed to the callback are non-decreasing and the last one is
\* exactly 1.0.  (Fails: a source that delivers fewer frames than it reported
\* ends the run with the last fraction below 1.0.)
C1_ProgressEndsAtOne ==
    (Returned /\ config.has_callback /\ calls # <<>>) =>
        /\ \A k \in 1..(Len(calls) - 1) : PyLeq(calls[k][1], calls[k + 1][1])
        /\ calls[Len(calls)][1].num = calls[Len(calls)][1].den

\* C2: after a run that processes N frames, the PNG files written are exactly
\* frame_000000.png .. frame_{N-1:06d}.png, one per index, in index order, none
\* twice, when save_png is set; likewise the .txt files when save_txt is set.
C2_FrameIndexContiguity ==
    Returned =>
        LET N == result[1].frames_count
        IN  /\ config.save_png => Written("png") = LayoutNames(N, FRAME_PNG_EXT)
            /\ config.save_txt => Written("txt") = LayoutNames(N, FRAME_TXT_EXT)
            /\ NoDuplicates(disk)

C2_Witness ==
    /\ Returned
    /\ config.save_png
    /\ config.save_txt
    /\ result[1].frames_count >= 2
    /\ Len(Written("png")) >= 2

\* C3: once persisting the text or image of frame i has raised, the run is
\* aborting or has failed with that error: frame i is not written again, only
\* frames 0..i were read or persisted, the callback was invoked for frames
\* 0..i-1 only, the assembler is not invoked and no result is returned.
C3_PersistErrorAborts ==
    (fault # <<>> /\ fault[1].stage \in {"txt", "png"}) =>
        LET i == fault[1].frame
        IN  /\ pc \in {"Finally", "Failed"}
            /\ error = (IF fault[1].stage = "txt" THEN "TxtWriteError"
                        ELSE "PngRenderError")
            /\ frame_number = i
            /\ reads = i + 1
            /\ Len(calls) = (IF config.has_callback THEN i ELSE 0)
            /\ \A k \in 1..Len(disk) :
                   \E j \in 0..i : disk[k].name \in {LayoutName(j, FRAME_TXT_EXT),
                                                     LayoutName(j, FRAME_PNG_EXT)}
            /\ Len(Written("png")) <= i
            /\ Len(Written("txt")) <= i + 1
            /\ NoDuplicates(disk)
            /\ assembler_calls = 0
            /\ result = <<>>

C3_Witness ==
    /\ pc = "Failed"
    /\ fault # <<>>
    /\ fault[1].stage = "png"
    /\ fault[1].frame = 1
    /\ source.total > 2
    /\ source.actual > 2
    /\ config.save_mp4

\* C4: a source that cannot be opened takes the run from Opening straight to
\* Failed with the open error: nothing is read, written, reported or encoded.
C4_OpenFailureFailsImmediately ==
    ~source.openable =>
        /\ pc \in {"Opening", "Failed"}
        /\ pc = "Failed" => error = "ValueError"
        /\ reads = 0
        /\ released = 0
        /\ disk = <<>>
        /\ calls = <<>>
        /\ assembler_calls = 0
        /\ result = <<>>

C4_Witness ==
    /\ ~source.openable
    /\ pc = "Failed"
    /\ source.total > 0
    /\ source.actual > 0

\* number of frames the decoder handed to the loop so far
FramesDecoded == Min(reads, source.actual)

EncoderFailed == encoder \in {"nonzero", "launch_error"}

\* C5: when the assembler was invoked and the encoder fails (nonzero exit, or
\* an exception while launching it), the run neither fails nor repeats work:
\* the assembler was invoked once, no frame was read again, and the result that
\* is returned carries the counts of the frame pass and mp4_file None.
C5_EncoderFailureKeepsResult ==
    (config.save_mp4 /\ assembler_calls > 0 /\ EncoderFailed) =>
        /\ assembler_calls = 1
        /\ pc \in {"Assembling", "Return", "Done"}
        /\ error = None
        /\ reads <= frame_number + 1
        /\ NoDuplicates(disk)
        /\ pc # "Assembling" => mp4_file = None
        /\ pc = "Done" =>
              /\ result # <<>>
              /\ result[1].frames_count = FramesDecoded
              /\ result[1].png_files_count = Len(Written("png"))
              /\ result[1].txt_files_count = Len(Written("txt"))
              /\ result[1].mp4_file = None

C5_Witness ==
    /\ Returned
    /\ config.save_mp4
    /\ config.save_txt
    /\ assembler_calls = 1
    /\ encoder = "nonzero"
    /\ result[1].frames_count >= 2
    /\ result[1].mp4_file = None

\* C6: the assembler hands back the output path exactly when the encoder
\* process exited with code zero (the video file then exists); on a nonzero
\* exit it hands back None; it never raises into convert_video.
C6_AssemblerReturnsPathIffExitZero ==
    assembler_calls > 0 =>
        /\ error = None
        /\ pc # "Failed"
        /\ pc \in {"Return", "Done"} =>
              /\ (mp4_file = "ascii_video.mp4") <=> (encoder = "exit0")
              /\ (mp4_file = None) <=> (encoder # "exit0")
              /\ (Written("mp4") = <<"ascii_video.mp4">>) <=> (encoder = "exit0")
              /\ (Written("mp4") = <<>>) <=> (encoder # "exit0")

C6_Witness ==
    /\ Returned
    /\ assembler_calls = 1
    /\ encoder = "exit0"
    /\ result[1].mp4_file = "ascii_video.mp4"

\* C7 as stated: a run that has ended invoked the assembler if and only if
\* save_mp4 is set and at least one image was persisted.  (Fails: a run that
\* aborts on a later frame has persisted images and never reaches the assembler.)
C7_AssemblerIffMp4AndImage ==
    (pc \in {"Done", "Failed"}) =>
        ((assembler_calls > 0) <=> (config.save_mp4 /\ Len(Written("png")) >= 1))

\* C7 amended: in a run whose frame loop ends without an exception, the
\* assembler is invoked if and only if save_mp4 is set and at least one image
\* was persisted; it is invoked only after every frame was processed and the
\* decoder released; a run without save_png or with zero frames never invokes
\* it and reports mp4_file None; a run aborted by an exception never invokes it.
C7_AssemblerAfterCleanFramePass ==
    /\ assembler_calls > 0 =>
          /\ config.save_mp4
          /\ Len(Written("png")) >= 1
          /\ fault = <<>>
          /\ released = 1
          /\ frame_number = Min(source.actual, source.total)
          /\ pc \in {"Assembling", "Return", "Done"}
    /\ pc \in {"Assembling", "Return", "Done"} =>
          ((assembler_calls = 1) <=> (config.save_mp4 /\ Len(Written("png")) >= 1))
    /\ (Returned /\ (~config.save_png \/ result[1].frames_count = 0)) =>
          /\ assembler_calls = 0
          /\ result[1].mp4_file = None
    /\ (fault # <<>> \/ error # None) => assembler_calls = 0

C7_Witness ==
    /\ Returned
    /\ config.save_mp4
    /\ assembler_calls = 1
    /\ released = 1
    /\ Len(Written("png")) >= 2

\* C8: the encoder invocation runs under a bounded wait: once the encoder was
\* launched the run reaches a terminal state, even when the encoder process
\* never exits.  (Fails: subprocess.run is called without a timeout, so a
\* process that never exits keeps the run in Assembling for ever.)
C8_EncoderWaitIsBounded == (pc = "Assembling") ~> Terminal

\* C9: the decode loop makes at most T reads for a reported total T, makes no
\* read after the first one that delivered no frame, never counts more than
\* min(A, T) frames for a source that delivers A, and a run that gets past the
\* loop has counted exactly min(A, T) frames, which is its frames_count.
C9_DecodeLoopBounded ==
    /\ reads <= source.total
    /\ reads <= source.actual + 1
    /\ frame_number <= Min(source.actual, source.total)
    /\ total_frames \in {0, source.total}
    /\ (pc \in {"AfterLoop", "Assembling", "Return", "Done"}) =>
          frame_number = Min(source.actual, source.total)
    /\ Returned => result[1].frames_count = Min(source.actual, source.total)

C9_Witness ==
    /\ Returned
    /\ source.actual >= 1
    /\ source.actual < source.total
    /\ reads = source.actual + 1
    /\ result[1].frames_count = source.actual

\* C10: when a callback was passed it has been invoked exactly once for every
\* processed frame, the k-th time with the positional arguments
\* (fraction, k, reported total), the fraction a float in [0,1], and k the
\* number of frames persisted when the call is made.
C10_CallbackContract ==
    /\ ~config.has_callback => calls = <<>>
    /\ config.has_callback =>
          /\ Len(calls) = frame_number
          /\ \A k \in 1..Len(calls) :
                 /\ Len(calls[k]) = 3
                 /\ calls[k][1].type = "float"
                 /\ calls[k][1].den > 0
                 /\ 0 <= calls[k][1].num
                 /\ calls[k][1].num <= calls[k][1].den
                 /\ calls[k][2] = PyInt(k)
                 /\ calls[k][3] = PyInt(source.total)
          /\ (pc = "LoopHead" /\ calls # <<>>) =>
                 /\ config.save_png =>
                        calls[Len(calls)][2].num = Len(Written("png"))
                 /\ config.save_txt =>
                        calls[Len(calls)][2].num = Len(Written("txt"))

C10_Witness ==
    /\ config.has_callback
    /\ config.save_png
    /\ pc = "LoopHead"
    /\ Len(calls) = 2
    /\ calls[1][2] = PyInt(1)
    /\ source.total = 3

\* C11: in a returned result png_files_count is frames_count when save_png is
\* set and 0 otherwise, txt_files_count is frames_count when save_txt is set
\* and 0 otherwise, and mp4_file is None when save_mp4 is unset; the counts are
\* the numbers of files of each format the run wrote.
C11_ResultCounts ==
    Returned =>
        LET r == result[1]
        IN  /\ r.frames_count = FramesDecoded
            /\ r.png_files_count = (IF config.save_png THEN r.frames_count ELSE 0)
            /\ r.txt_files_count = (IF config.save_txt THEN r.frames_count ELSE 0)
            /\ r.png_files_count = Len(Written("png"))
            /\ r.txt_files_count = Len(Written("txt"))
            /\ ~config.save_mp4 => (r.mp4_file = None /\ Written("mp4") = <<>>)

C11_Witness ==
    /\ Returned
    /\ config.save_png
    /\ config.save_txt
    /\ ~config.save_mp4
    /\ source.total = MaxTotal
    /\ result[1].frames_count = MaxTotal
    /\ result[1].png_files_count = MaxTotal
    /\ result[1].txt_files_count = MaxTotal
    /\ result[1].mp4_file = None

\* the frame index in a frame file's name (frames 0..9)
IndexOf(name) ==
    CHOOSE j \in 0..9 : name \in {LayoutName(j, FRAME_TXT_EXT),
                                  LayoutName(j, FRAME_PNG_EXT)}

IsFrameFile(f) == f.kind \in {"txt", "png"}

\* C12: frames are handled one at a time in source order: while the k-th frame
\* read is in the loop body it is frame index k-1 and every requested artifact
\* and the callback of all earlier frames are complete; files reach the disk in
\* frame order, the text of a frame before its image; at the loop head every
\* frame read so far is fully persisted and reported.
C12_StrictlySequential ==
    /\ (pc \in {"Transform", "SaveTxt", "RenderPng", "Advance"}) =>
          /\ frame_number = reads - 1
          /\ config.has_callback => Len(calls) = reads - 1
          /\ config.save_txt =>
                 Written("txt") \in {LayoutNames(reads - 1, FRAME_TXT_EXT),
                                     LayoutNames(reads, FRAME_TXT_EXT)}
          /\ config.save_png =>
                 Written("png") \in {LayoutNames(reads - 1, FRAME_PNG_EXT),
                                     LayoutNames(reads, FRAME_PNG_EXT)}
          /\ (pc \in {"RenderPng", "Advance"} /\ config.save_txt) =>
                 Written("txt") = LayoutNames(reads, FRAME_TXT_EXT)
          /\ (pc = "Advance" /\ config.save_png) =>
                 Written("png") = LayoutNames(reads, FRAME_PNG_EXT)
          /\ (pc \in {"Transform", "SaveTxt"} /\ config.save_png) =>
                 Written("png") = LayoutNames(reads - 1, FRAME_PNG_EXT)
    /\ pc = "LoopHead" =>
          /\ frame_number = FramesDecoded
          /\ config.has_callback => Len(calls) = frame_number
          /\ config.save_txt => Written("txt") = LayoutNames(frame_number, FRAME_TXT_EXT)
          /\ config.save_png => Written("png") = LayoutNames(frame_number, FRAME_PNG_EXT)
    /\ \A p, q \in 1..Len(disk) :
          (p < q /\ IsFrameFile(disk[p]) /\ IsFrameFile(disk[q])) =>
              \/ IndexOf(disk[p].name) < IndexOf(disk[q].name)
              \/ /\ IndexOf(disk[p].name) = IndexOf(disk[q].name)
                 /\ disk[p].kind = "txt"
                 /\ disk[q].kind = "png"

C12_Witness ==
    /\ pc = "Transform"
    /\ reads = 3
    /\ config.save_txt
    /\ config.save_png
    /\ config.has_callback
    /\ Len(disk) = 4
    /\ Len(calls) = 2

\* C13: once a cancellation signal was raised, no frame after the one current
\* at the signal is processed, and the run ends in a Cancelled terminal state
\* rather than Done.  (Fails: convert_video has no cancellation check and no
\* Cancelled state; it reads and processes the next frame and returns.)
C13_CancelStopsRun ==
    cancel # <<>> =>
        /\ ~(/\ pc \in {"Transform", "SaveTxt", "RenderPng", "Advance"}
             /\ reads > cancel[1].reads)
        /\ pc # "Done"

\* =============================================================== HTTP layer
\* POST /convert/video (app/routes/convert.py). uvicorn runs settings.WORKERS
\* processes; each has one event loop and its own JOBS_STATUS. The handler is
\* a coroutine whose only suspension point is `await file.read()`: everything
\* after it, convert_video included, runs on the event loop without yielding.

\* the state of the converter while the HTTP layer is observed
RunIdle ==
    /\ config = [save_txt |-> FALSE, save_png |-> TRUE, save_mp4 |-> TRUE,
                 has_callback |-> TRUE]
    /\ source = [openable |-> TRUE, total |-> 0, actual |-> 0]
    /\ encoder = "exit0"
    /\ RunStart

run_vars == <<env, pc, total_frames, frame_number, txt_files, png_files,
              mp4_file, error, result, disk, calls, reads, released,
              assembler_calls, fault, cancel, prior>>

\* Settings as read from the environment
SettingsChoices == [WORKERS : Workers, MAX_CONCURRENT_JOBS : Workers]

WebInit ==
    /\ settings \in SettingsChoices
    /\ requests = [r \in Requests |-> NoRequest]
    /\ JOBS_STATUS = [w \in Workers |-> [id \in JobIds |-> NoEntry]]
    /\ RunIdle
    /\ CoreIdle

\* the event loop of worker w is not inside a call of convert_video
LoopFree(w) ==
    \A r \in Requests :
        ~(requests[r].worker = w /\ requests[r].state = "converting")

\* the handler of r is between its entry and its return
InFlight(r) == requests[r].state \in {"reading", "converting"}

\* the handler's except branch: the entry of job_id is marked failed and the
\* exception is turned into a 500 response
HandlerFails(r, reg) ==
    LET w == requests[r].worker
        id == requests[r].job_id
    IN  /\ requests' = [requests EXCEPT ![r].state = "failed",
                                        ![r].total = 0, ![r].frames = 0,
                                        ![r].response = 500]
        /\ JOBS_STATUS' = [reg EXCEPT ![w][id].status = "failed",
                                      ![w][id].has_error = TRUE]

\* entry of the handler up to `await file.read()`. Requests are numbered in
\* the order they arrive.
Register(r, w) ==
    /\ requests[r].state = "new"
    /\ IF r = 1 THEN TRUE ELSE requests[r - 1].state # "new"
    /\ w <= settings.WORKERS
    /\ LoopFree(w)
    /\ \E id \in JobIds, width \in Widths, size_mb \in UploadSizes :
          /\ requests' = [requests EXCEPT ![r] =
                 [state |-> "reading", worker |-> w, job_id |-> id,
                  width |-> width, size_mb |-> size_mb, total |-> 0,
                  frames |-> 0, response |-> 0]]
          /\ JOBS_STATUS' = [JOBS_STATUS EXCEPT ![w][id] =
                 [status |-> "processing", progress |-> PyFloat(0, 1),
                  has_result |-> FALSE, has_error |-> FALSE]]
    /\ UNCHANGED <<settings, run_vars, core_vars>>

\* the upload is larger than MAX_FILE_SIZE: HTTPException(413) is raised inside
\* the try block and caught by `except Exception`
UploadTooLarge(r) ==
    /\ requests[r].state = "reading"
    /\ requests[r].size_mb > MAX_FILE_SIZE
    /\ LoopFree(requests[r].worker)
    /\ HandlerFails(r, JOBS_STATUS)
    /\ UNCHANGED <<settings, run_vars, core_vars>>

\* the upload is stored, progress becomes 0.1, ASCIIConverter(...) raises
ConstructorRaises(r) ==
    /\ requests[r].state = "reading"
    /\ ~(requests[r].size_mb > MAX_FILE_SIZE)
    /\ LoopFree(requests[r].worker)
    /\ HandlerFails(r, [JOBS_STATUS EXCEPT
           ![requests[r].worker][requests[r].job_id].progress = PyFloat(1, 10)])
    /\ UNCHANGED <<settings, run_vars, core_vars>>

\* the upload is stored, progress becomes 0.1, the converter is constructed
\* and convert_video is entered on a video reporting `total` frames
StartConversion(r) ==
    /\ requests[r].state = "reading"
    /\ ~(requests[r].size_mb > MAX_FILE_SIZE)
    /\ LoopFree(requests[r].worker)
    /\ \E total \in 0..MaxTotal :
          requests' = [requests EXCEPT ![r].state = "converting",
                                       ![r].total = total]
    /\ JOBS_STATUS' = [JOBS_STATUS EXCEPT
           ![requests[r].worker][requests[r].job_id].progress = PyFloat(1, 10)]
    /\ UNCHANGED <<settings, run_vars, core_vars>>

\* progress_callback(progress, frame_num, total) of the handler, called by
\* convert_video after each frame with progress = frame_num / max(total, 1):
\* the entry's progress becomes 0.1 + progress * 0.8
ProgressCallback(r) ==
    /\ requests[r].state = "converting"
    /\ requests[r].frames < requests[r].total
    /\ LET n == requests[r].frames + 1
           d == Max(requests[r].total, 1)
       IN  /\ requests' = [requests EXCEPT ![r].frames = n]
           /\ JOBS_STATUS' = [JOBS_STATUS EXCEPT
                  ![requests[r].worker][requests[r].job_id].progress =
                      PyFloat(d + 8 * n, 10 * d)]
    /\ UNCHANGED <<settings, run_vars, core_vars>>

\* convert_video returns its result
Converted(r) ==
    /\ requests[r].state = "converting"
    /\ requests' = [requests EXCEPT ![r].state = "completed",
                                    ![r].total = 0, ![r].frames = 0,
                                    ![r].response = 200]
    /\ JOBS_STATUS' = [JOBS_STATUS EXCEPT
           ![requests[r].worker][requests[r].job_id].status = "completed",
           ![requests[r].worker][requests[r].job_id].progress = PyFloat(1, 1),
           ![requests[r].worker][requests[r].job_id].has_result = TRUE]
    /\ UNCHANGED <<settings, run_vars, core_vars>>

\* convert_video raises
ConvertRaises(r) ==
    /\ requests[r].state = "converting"
    /\ HandlerFails(r, JOBS_STATUS)
    /\ UNCHANGED <<settings, run_vars, core_vars>>

\* GET /status/{job_id} served by worker w
get_job_status(w, job_id) ==
    IF JOBS_STATUS[w][job_id].status = "absent"
    THEN [code |-> 404, status |-> None, progress |-> None]
    ELSE [code |-> 200, status |-> JOBS_STATUS[w][job_id].status,
          progress |-> JOBS_STATUS[w][job_id].progress]

WebNext ==
    \E r \in Requests :
        \/ \E w \in Workers : Register(r, w)
        \/ UploadTooLarge(r)
        \/ ConstructorRaises(r)
        \/ StartConversion(r)
        \/ ProgressCallback(r)
        \/ Converted(r)
        \/ ConvertRaises(r)

WebSpec == WebInit /\ [][WebNext]_vars

\* conversion runs executing right now
Executing == {r \in Requests : requests[r].state = "converting"}

\* C14: the number of conversion runs executing at the same time never exceeds
\* the configured ceiling MAX_CONCURRENT_JOBS.
C14_ConcurrentRunsWithinCeiling ==
    Cardinality(Executing) <= settings.MAX_CONCURRENT_JOBS

\* C15: any two runs that are live at the same time use different working and
\* output directories, whatever job identifiers create_job_id returned.
C15_LiveRunsUseDistinctDirectories ==
    \A r1, r2 \in Executing :
        r1 # r2 =>
            /\ temp_dir(requests[r1].job_id) # temp_dir(requests[r2].job_id)
            /\ output_dir(requests[r1].job_id) # output_dir(requests[r2].job_id)

\* C16: each entry of a JOBS_STATUS registry has at most one handler in flight
\* writing it, and while a handler is in flight a status read of its job shows
\* that job's own data (still "processing"), never another run's.
C16_RegistryEntryHasOneWriter ==
    /\ \A r1, r2 \in Requests :
           (/\ r1 # r2
            /\ InFlight(r1)
            /\ InFlight(r2)
            /\ requests[r1].worker = requests[r2].worker)
               => requests[r1].job_id # requests[r2].job_id
    /\ \A r \in Requests :
           InFlight(r) =>
               get_job_status(requests[r].worker,
                              requests[r].job_id).status = "processing"

\* C17: a request whose width is below 10 or above 240 is rejected before an
\* ASCIIConverter is constructed: no conversion is ever entered for it.
C17_OutOfRangeWidthRejected ==
    \A r \in Requests :
        requests[r].state \in {"converting", "completed"} =>
            requests[r].width \in MIN_WIDTH..MAX_WIDTH

\* ================================================== converter construction
\* ASCIIConverter.__init__ and the sample-to-glyph step of frame_to_ascii

CoreInit ==
    /\ ctor_args \in CtorArgs
    /\ converter = NoConverter
    /\ glyph = <<>>
    /\ frame = NoFrame
    /\ gray = <<>>
    /\ ascii_text = <<>>
    /\ png = <<>>
    /\ RunIdle
    /\ WebIdle

\* one of the two colour strings makes hex_to_rgb raise
ColourRaises(args) ==
    hex_to_rgb(args.bg_color).raised \/ hex_to_rgb(args.text_color).raised

\* __init__ runs to its end
Construct ==
    /\ converter.state = "none"
    /\ ~ColourRaises(ctor_args)
    /\ LET known == ctor_args.resolution \in DOMAIN RESOLUTIONS
           size == RESOLUTIONS[IF known THEN ctor_args.resolution ELSE "high"]
       IN  converter' =
               [state |-> "constructed",
                ascii_set |-> ascii_set_for(ctor_args.style),
                bg_color_rgb |-> hex_to_rgb(ctor_args.bg_color).value,
                text_color_rgb |-> hex_to_rgb(ctor_args.text_color).value,
                height |-> calculate_height(ctor_args.width),
                out_width |-> size[1],
                out_height |-> size[2],
                warnings |-> IF known THEN <<>> ELSE <<"resolution">>,
                error |-> None]
    /\ UNCHANGED <<ctor_args, glyph, frame_vars, run_vars, web_vars>>

\* __init__ is left by the ValueError of hex_to_rgb, before the resolution is
\* looked at
ConstructRaises ==
    /\ converter.state = "none"
    /\ ColourRaises(ctor_args)
    /\ converter' = [NoConverter EXCEPT !.state = "raised",
                                        !.error = "ValueError"]
    /\ UNCHANGED <<ctor_args, glyph, frame_vars, run_vars, web_vars>>

\* the inner loop body of frame_to_ascii on one sample of the resized frame.
\* The body keeps no state from one sample to the next, so the samples after
\* the first reach no state the first does not reach: one sample is followed
\* per converter.
MapPixel(v) ==
    /\ converter.state = "constructed"
    /\ glyph = <<>>
    /\ LET idx == glyph_index(converter.ascii_set, v)
       IN  glyph' = <<[v |-> v, idx |-> idx,
                       char |-> IF idx + 1 \in DOMAIN converter.ascii_set
                                THEN converter.ascii_set[idx + 1]
                                ELSE "IndexError"]>>
    /\ UNCHANGED <<ctor_args, converter, frame_vars, run_vars, web_vars>>

CoreNext ==
    \/ Construct
    \/ ConstructRaises
    \/ \E v \in Samples : MapPixel(v)

CoreSpec == CoreInit /\ [][CoreNext]_vars

\* __init__ has logged a warning about `what`
Warned(what) == \E i \in DOMAIN converter.warnings : converter.warnings[i] = what

\* C18: constructing an ASCIIConverter with an unknown style or an unknown
\* resolution never fails; the style falls back to the "normal" ramp and the
\* resolution to "high" (1920x1080), each with a logged warning.
C18_UnknownIdentifiersFallBackWithWarning ==
    converter.state # "none" =>
        /\ ~ColourRaises(ctor_args) => converter.state = "constructed"
        /\ (converter.state = "constructed"
                /\ ctor_args.style \notin DOMAIN ASCII_SETS) =>
               /\ converter.ascii_set = ASCII_SETS["normal"]
               /\ Warned("style")
        /\ (converter.state = "constructed"
                /\ ctor_args.resolution \notin DOMAIN RESOLUTIONS) =>
               /\ converter.out_width = RESOLUTIONS["high"][1]
               /\ converter.out_height = RESOLUTIONS["high"][2]
               /\ Warned("resolution")

\* C19: constructing an ASCIIConverter with a background or text colour that is
\* not a valid 6-hex-digit colour does not fail: the run proceeds with a
\* constructed converter.
C19_InvalidColourDoesNotFail ==
    (/\ converter.state # "none"
     /\ \/ ~is_valid_hex_color(ctor_args.bg_color)
        \/ ~is_valid_hex_color(ctor_args.text_color))
        => converter.state = "constructed"

\* C20: every ramp of ASCII_SETS is non-empty, and the glyph index of a sample
\* v in 0..255 is floor(v / 255 * (ramp_length - 1)): it lies in
\* 0..ramp_length-1, no smaller sample has a larger index, 0 maps to index 0
\* and 255 to index ramp_length-1.
C20_GlyphIndexMonotoneInRange ==
    /\ \A style \in DOMAIN ASCII_SETS : Len(ASCII_SETS[style]) >= 1
    /\ glyph # <<>> =>
           LET L == Len(converter.ascii_set)
               v == glyph[1].v
               k == glyph[1].idx
           IN  /\ k \in 0..(L - 1)
               /\ k * 255 <= v * (L - 1)
               /\ v * (L - 1) < (k + 1) * 255
               /\ v = 0 => k = 0
               /\ v = 255 => k = L - 1
               /\ glyph[1].char = converter.ascii_set[k + 1]
               /\ \A u \in Samples :
                      u <= v => glyph_index(converter.ascii_set, u) <= k

\* the brightest sample has been mapped to the last glyph of the "dots" ramp
C20_Witness ==
    /\ glyph # <<>>
    /\ ctor_args.style = "dots"
    /\ glyph[1].v = 255
    /\ glyph[1].idx = 6
    /\ glyph[1].char = "U+25CF"

\* ============================================================ text frames
\* frame_to_ascii of a converter constructed for each width of the documented
\* range

GridArgs ==
    { [DefaultArgs EXCEPT !.width = w, !.style = s] :
          w \in MIN_WIDTH..MAX_WIDTH, s \in {"normal", "dots"} }

GridFrames ==
    { << << <<0, 0, 0>>, <<255, 255, 255>> >> >>,
      << << <<0, 255, 0>>, <<128, 128, 128>> >> >> }

GridInit ==
    /\ ctor_args \in GridArgs
    /\ converter = NoConverter
    /\ glyph = <<>>
    /\ frame \in GridFrames
    /\ gray = <<>>
    /\ ascii_text = <<>>
    /\ png = <<>>
    /\ RunIdle
    /\ WebIdle

\* frame_to_ascii(frame)
FrameToAscii ==
    /\ converter.state = "constructed"
    /\ ascii_text = <<>>
    /\ gray' = color_correction_steps(frame, ctor_args)
    /\ ascii_text' = <<frame_to_ascii(converter, ctor_args, frame)>>
    /\ UNCHANGED <<ctor_args, converter, glyph, frame, png, run_vars, web_vars>>

GridNext == Construct \/ FrameToAscii

GridSpec == GridInit /\ [][GridNext]_vars

\* C21: for every width in 10..240 the text frame has exactly int(width * 0.5)
\* rows of exactly width glyphs each, separated by the line separator, with no
\* separator after the last row; the height comes from the width alone.
C21_TextFrameGrid ==
    ascii_text # <<>> =>
        LET text == ascii_text[1]
            w == ctor_args.width
            h == CHOOSE k \in 0..w : 2 * k <= w /\ w < 2 * k + 2
        IN  /\ converter.height = h
            /\ Len(text) = h * w + (h - 1)
            /\ \A i \in DOMAIN text :
                   (text[i] = LineSep) <=> (i % (w + 1) = 0)

\* a text frame of 120 rows of 240 glyphs has been produced
C21_Witness ==
    /\ ascii_text # <<>>
    /\ ctor_args.width = MAX_WIDTH
    /\ Len(ascii_text[1]) = 120 * 240 + 119
    /\ ascii_text[1][241] = LineSep

\* ============================================================== rendering
\* render_frame_png on the text frame of a constructed converter

\* what ImageFont gives on this machine: can one of the three TrueType files
\* be loaded, the bounding box of "X" in that font at size s is
\* (s * wn div 10, s * hn div 10), and the bounding box of "X" in the built-in
\* default font is (dw, dh)
FontEnvs ==
    { [truetype |-> TRUE, wn |-> 6, hn |-> 7, dw |-> 6, dh |-> 11],
      [truetype |-> TRUE, wn |-> 5, hn |-> 12, dw |-> 6, dh |-> 11],
      [truetype |-> FALSE, wn |-> 0, hn |-> 0, dw |-> 6, dh |-> 11],
      [truetype |-> FALSE, wn |-> 0, hn |-> 0, dw |-> 2, dh |-> 3] }

base_font_size == 40

\* the stop value of range(base_font_size, 4, -1)
font_size_stop == 4

\* the font of one scan step and the bounding box of "X" in it
font_at(fnt, size) ==
    IF fnt.truetype
    THEN [name |-> "truetype", char_w |-> (size * fnt.wn) \div 10,
          char_h |-> (size * fnt.hn) \div 10]
    ELSE [name |-> "default", char_w |-> fnt.dw, char_h |-> fnt.dh]

\* a fit test against the whole canvas
fits_whole_canvas(text_w, text_h, img_width, img_height) ==
    text_w <= img_width /\ text_h <= img_height

\* text_w <= img_width * 0.9 and text_h <= img_height * 0.9
fits(text_w, text_h, img_width, img_height) ==
    10 * text_w <= 9 * img_width /\ 10 * text_h <= 9 * img_height

\* pick_font_size: the loop from `size` downwards, then the fallback
RECURSIVE pick_font_size_from(_, _, _, _, _, _)
pick_font_size_from(size, fnt, target_cols, target_rows, img_width, img_height) ==
    IF size <= font_size_stop
    THEN [font |-> "default", size |-> 0, char_w |-> fnt.dw,
          char_h |-> fnt.dh, fallback |-> TRUE]
    ELSE LET f == font_at(fnt, size)
         IN  IF fits(f.char_w * target_cols, f.char_h * target_rows,
                     img_width, img_height)
             THEN [font |-> f.name, size |-> size, char_w |-> f.char_w,
                   char_h |-> f.char_h, fallback |-> FALSE]
             ELSE pick_font_size_from(size - 1, fnt, target_cols,
                                      target_rows, img_width, img_height)

pick_font_size(fnt, target_cols, target_rows, img_width, img_height) ==
    pick_font_size_from(base_font_size, fnt, target_cols, target_rows,
                        img_width, img_height)

\* len(ascii_text.split("\n"))
count_lines(text) ==
    Cardinality({i \in DOMAIN text : text[i] = LineSep}) + 1

\* int(n / 2)
IntHalf(n) == IF n >= 0 THEN n \div 2 ELSE -((-n) \div 2)

\* a canvas that is always resized by one row
saved_height_always_bumped(img_height) == img_height + 1

\* the height of the saved image: one more row if img_height is odd
saved_height(img_height) ==
    IF img_height % 2 # 0 THEN img_height + 1 ELSE img_height

RenderArgs ==
    { [DefaultArgs EXCEPT !.width = w, !.resolution = res] :
          w \in {MIN_WIDTH, 80, 120, MAX_WIDTH}, res \in ResolutionNames }

RenderInit ==
    /\ ctor_args \in RenderArgs
    /\ converter = NoConverter
    /\ glyph = <<>>
    /\ frame = NoFrame
    /\ gray = <<>>
    /\ ascii_text = <<>>
    /\ png = <<>>
    /\ RunIdle
    /\ WebIdle

\* render_frame_png(ascii_text, frame_number) saves the image
RenderFramePng ==
    /\ ascii_text # <<>>
    /\ png = <<>>
    /\ \E fnt \in FontEnvs :
          LET target_cols == Max(ctor_args.width, 1)
              target_rows == Max(count_lines(ascii_text[1]), 1)
              picked == pick_font_size(fnt, target_cols, target_rows,
                                       converter.out_width,
                                       converter.out_height)
          IN  png' = <<[fonts |-> fnt,
                        target_cols |-> target_cols,
                        target_rows |-> target_rows,
                        picked |-> picked,
                        x_offset |-> IntHalf(converter.out_width
                                         - picked.char_w * target_cols),
                        y_offset |-> IntHalf(converter.out_height
                                         - picked.char_h * target_rows),
                        width |-> converter.out_width,
                        height |-> saved_height(converter.out_height),
                        error |-> None]>>
    /\ UNCHANGED <<ctor_args, converter, glyph, frame, gray, ascii_text,
                   run_vars, web_vars>>

\* render_frame_png logs and re-raises what drawing or img.save raised
RenderFramePngRaises ==
    /\ ascii_text # <<>>
    /\ png = <<>>
    /\ png' = <<[error |-> "OSError"]>>
    /\ UNCHANGED <<ctor_args, converter, glyph, frame, gray, ascii_text,
                   run_vars, web_vars>>

RenderNext ==
    \/ Construct
    \/ FrameToAscii
    \/ RenderFramePng
    \/ RenderFramePngRaises

RenderSpec == RenderInit /\ [][RenderNext]_vars

\* an image has been saved
Rendered == png # <<>> /\ png[1].error = None

\* does the glyph block of the font scanned at `size` fit into 90% of the
\* canvas on both axes
FitsAt(size) ==
    LET f == font_at(png[1].fonts, size)
    IN  /\ 10 * f.char_w * png[1].target_cols <= 9 * png[1].width
        /\ 10 * f.char_h * png[1].target_rows <= 9 * converter.out_height

\* C22: the font-size search scans 40 down to 5 and returns the largest size
\* whose glyph block is at most 90% of the output width and height; if no
\* scanned size fits it returns the built-in default font instead of failing.
C22_LargestFittingFontSize ==
    Rendered =>
        LET p == png[1].picked
        IN  IF \E s \in 5..40 : FitsAt(s)
            THEN /\ ~p.fallback
                 /\ p.size \in 5..40
                 /\ FitsAt(p.size)
                 /\ \A s \in 5..40 : s > p.size => ~FitsAt(s)
                 /\ p.char_w = font_at(png[1].fonts, p.size).char_w
                 /\ p.char_h = font_at(png[1].fonts, p.size).char_h
            ELSE /\ p.fallback
                 /\ p.font = "default"
                 /\ p.char_w = png[1].fonts.dw
                 /\ p.char_h = png[1].fonts.dh

\* a TrueType size strictly inside the scanned range has been picked
C22_Witness ==
    /\ Rendered
    /\ ~png[1].picked.fallback
    /\ png[1].picked.font = "truetype"
    /\ png[1].picked.size > 5
    /\ png[1].picked.size < 40

\* the search has ended in the fallback
C22_FallbackWitness ==
    /\ Rendered
    /\ png[1].picked.fallback

\* C23: every rendered frame has an even pixel height, for each of the
\* resolution classes low, medium, high and 4k and for an unknown resolution
\* identifier, which is rendered as high.
C23_RenderedHeightEven ==
    Rendered =>
        /\ png[1].height % 2 = 0
        /\ ctor_args.resolution \in DOMAIN RESOLUTIONS =>
               png[1].height = RESOLUTIONS[ctor_args.resolution][2]
        /\ ctor_args.resolution \notin DOMAIN RESOLUTIONS =>
               png[1].height = RESOLUTIONS["high"][2]

\* a frame has been rendered for the unknown resolution identifier
C23_Witness ==
    /\ Rendered
    /\ ctor_args.resolution = "8k"
    /\ png[1].height = 1080

\* ====================================================== colour corrections
\* apply_color_corrections of a constructed converter, one assignment to gray
\* at a time

ColorArgs ==
    { [DefaultArgs EXCEPT !.brightness = b, !.contrast = c, !.gamma = g] :
          b \in Factors, c \in Factors, g \in Gammas }

ColorInit ==
    /\ ctor_args \in ColorArgs
    /\ converter = NoConverter
    /\ glyph = <<>>
    /\ frame \in Frames
    /\ gray = <<>>
    /\ ascii_text = <<>>
    /\ png = <<>>
    /\ RunIdle
    /\ WebIdle

\* gray = cv2.cvtColor(frame, cv2.COLOR_BGR2GRAY)
CvtColor ==
    /\ converter.state = "constructed"
    /\ Len(gray) = 0
    /\ gray' = <<cvtColor_BGR2GRAY(frame)>>
    /\ UNCHANGED <<ctor_args, converter, glyph, frame, ascii_text, png,
                   run_vars, web_vars>>

\* gray = self.brightness_correction(gray)
BrightnessCorrection ==
    /\ Len(gray) = 1
    /\ gray' = Append(gray, brightness_correction(gray[1], ctor_args.brightness))
    /\ UNCHANGED <<ctor_args, converter, glyph, frame, ascii_text, png,
                   run_vars, web_vars>>

\* gray = self.contrast_correction(gray)
ContrastCorrection ==
    /\ Len(gray) = 2
    /\ gray' = Append(gray, contrast_correction(gray[2], ctor_args.contrast))
    /\ UNCHANGED <<ctor_args, converter, glyph, frame, ascii_text, png,
                   run_vars, web_vars>>

\* gray = self.gamma_correction(gray); return gray
GammaCorrection ==
    /\ Len(gray) = 3
    /\ gray' = Append(gray, gamma_correction(gray[3], ctor_args.gamma))
    /\ UNCHANGED <<ctor_args, converter, glyph, frame, ascii_text, png,
                   run_vars, web_vars>>

ColorNext ==
    \/ Construct
    \/ CvtColor
    \/ BrightnessCorrection
    \/ ContrastCorrection
    \/ GammaCorrection

ColorSpec == ColorInit /\ [][ColorNext]_vars

\* e is the rational num / den (den > 0) clipped to 0..255 and truncated
IsClipped(e, num, den) ==
    /\ e \in 0..255
    /\ num < 0 => e = 0
    /\ num >= 255 * den => e = 255
    /\ (num >= 0 /\ num < 255 * den) => (e * den <= num /\ num < (e + 1) * den)

\* grid `out` is grid `in` with brightness factor f applied
IsBrightened(out, in, f) ==
    \A r \in DOMAIN in : \A c \in DOMAIN in[r] :
        IF f.num = f.den THEN out[r][c] = in[r][c]
        ELSE IsClipped(out[r][c], in[r][c] * f.num, f.den)

\* grid `out` is grid `in` spread by factor f around the mean of `in`
IsContrasted(out, in, f) ==
    LET n == Len(in) * Len(in[1])
        S == SumSeq([r \in DOMAIN in |-> SumSeq(in[r])])
    IN  \A r \in DOMAIN in : \A c \in DOMAIN in[r] :
            IF f.num = f.den THEN out[r][c] = in[r][c]
            ELSE IsClipped(out[r][c],
                           (n * in[r][c] - S) * f.num + S * f.den, n * f.den)

\* grid `out` is grid `in` with 255 * (v / 255) ^ (1 / f) applied, truncated
IsGammaCorrected(out, in, f) ==
    \A r \in DOMAIN in : \A c \in DOMAIN in[r] :
        LET v == in[r][c]
            e == out[r][c]
        IN  /\ e \in 0..255
            /\ f.num = f.den => e = v
            /\ 2 * f.num = f.den => (255 * e <= v * v /\ v * v < 255 * (e + 1))
            /\ f.num = 2 * f.den =>
                   (e * e <= 255 * v /\ 255 * v < (e + 1) * (e + 1))

\* C24: with brightness = contrast = gamma = 1.0 apply_color_corrections
\* returns exactly the grayscale conversion, every stage being a no-op;
\* otherwise brightness, contrast and gamma are applied in that order, the
\* contrast stage around the mean of the brightness-corrected grid, and every
\* output sample is in 0..255.
C24_ColorCorrections ==
    Len(gray) = 4 =>
        /\ (/\ IsOne(ctor_args.brightness)
            /\ IsOne(ctor_args.contrast)
            /\ IsOne(ctor_args.gamma))
               => (gray[2] = gray[1] /\ gray[3] = gray[1] /\ gray[4] = gray[1])
        /\ IsBrightened(gray[2], gray[1], ctor_args.brightness)
        /\ IsContrasted(gray[3], gray[2], ctor_args.contrast)
        /\ IsGammaCorrected(gray[4], gray[3], ctor_args.gamma)
        /\ gray[4] = apply_color_corrections(frame, ctor_args)

\* all three stages have changed the grid, and the brightness stage has moved
\* the mean the contrast stage works with
C24_Witness ==
    /\ Len(gray) = 4
    /\ ~IsOne(ctor_args.brightness)
    /\ ~IsOne(ctor_args.contrast)
    /\ ~IsOne(ctor_args.gamma)
    /\ gray[2] # gray[1]
    /\ gray[3] # gray[2]
    /\ gray[4] # gray[3]
    /\ GridSum(gray[2]) # GridSum(gray[1])

\* the corrections have run with all factors 1.0 on a frame that is not black
C24_NoOpWitness ==
    /\ Len(gray) = 4
    /\ IsOne(ctor_args.brightness)
    /\ IsOne(ctor_args.contrast)
    /\ IsOne(ctor_args.gamma)
    /\ gray[4] = <<(<<150, 128>>)>>

\* ============================================================ a second run
\* convert_video called again on the same converter, the same video and the
\* same output directory, after the first call has ended

\* a second call that finds the lists of the first call
RunAgain_keeping_lists ==
    /\ Terminal
    /\ prior = <<>>
    /\ prior' = <<[result |-> result, disk |-> disk, calls |-> calls,
                   error |-> error]>>
    /\ pc' = "Opening"
    /\ total_frames' = 0
    /\ frame_number' = 0
    /\ mp4_file' = None
    /\ error' = None
    /\ result' = <<>>
    /\ calls' = <<>>
    /\ reads' = 0
    /\ released' = 0
    /\ assembler_calls' = 0
    /\ fault' = <<>>
    /\ UNCHANGED <<env, txt_files, png_files, disk, cancel, web_vars,
                   core_vars>>

\* the entry of the second call: its locals are fresh, the VideoCapture is a
\* new one, the files of the first call are still in the output directory
RunAgain ==
    /\ Terminal
    /\ prior = <<>>
    /\ prior' = <<[result |-> result, disk |-> disk, calls |-> calls,
                   error |-> error]>>
    /\ pc' = "Opening"
    /\ total_frames' = 0
    /\ frame_number' = 0
    /\ txt_files' = <<>>
    /\ png_files' = <<>>
    /\ mp4_file' = None
    /\ error' = None
    /\ result' = <<>>
    /\ calls' = <<>>
    /\ reads' = 0
    /\ released' = 0
    /\ assembler_calls' = 0
    /\ fault' = <<>>
    /\ UNCHANGED <<env, disk, cancel, web_vars, core_vars>>

TwoRunNext == Next \/ RunAgain

TwoRunSpec == Init /\ [][TwoRunNext]_vars

\* the files the second call has written, in write order
WrittenAgain == SubSeq(disk, Len(prior[1].disk) + 1, Len(disk))

\* both calls have returned a result
BothReturned == prior # <<>> /\ prior[1].result # <<>> /\ pc = "Done"

Zero == PyFloat(0, 1)

One == PyFloat(1, 1)

\* the entries of all registries
Entries == Workers \X JobIds

\* C26: the progress stored in a registry entry is always in [0,1], never
\* decreases from one write to the next, and is 1.0 only when the entry's
\* status is "completed".
C26_ProgressNeverDecreases ==
    [][\A e \in Entries :
          LET old == JOBS_STATUS[e[1]][e[2]]
              new == JOBS_STATUS'[e[1]][e[2]]
          IN  /\ PyLeq(Zero, new.progress)
              /\ PyLeq(new.progress, One)
              /\ PyLeq(old.progress, new.progress)
              /\ new.progress = One => new.status = "completed"]_vars

\* C27: an entry starts as "processing" and ends as exactly one of "completed"
\* and "failed", which it never leaves; a completed entry holds a result and
\* progress 1.0, a failed entry holds an error text and no result.
C27_JobEndsInOneTerminalStatus ==
    [][\A e \in Entries :
          LET old == JOBS_STATUS[e[1]][e[2]]
              new == JOBS_STATUS'[e[1]][e[2]]
          IN  /\ old.status = "absent" => new.status \in {"absent", "processing"}
              /\ old.status \in {"completed", "failed"} => new.status = old.status
              /\ new.status = "completed" =>
                     new.has_result /\ new.progress = One
              /\ new.status = "failed" =>
                     new.has_error /\ ~new.has_result]_vars

\* C28: a request whose upload is larger than MAX_FILE_SIZE is answered with
\* HTTP status 413 and never enters a conversion.
C28_TooLargeUploadAnswered413 ==
    \A r \in Requests :
        requests[r].size_mb > MAX_FILE_SIZE =>
            /\ requests[r].state \in {"reading", "failed"}
            /\ requests[r].state = "failed" => requests[r].response = 413

\* ====================================================== the decoder handle
\* the frame loop of convert_video is between the successful open and the
\* finally block
InFrameLoop ==
    pc \in {"LoopHead", "Transform", "SaveTxt", "RenderPng", "Advance",
            "Finally"}

\* convert_video has left the try statement of a source it had opened
LeftFrameLoop ==
    \/ pc \in {"AfterLoop", "Assembling", "Return", "Done"}
    \/ pc = "Failed" /\ ~OpenRaises(source)

\* C29: on every exit path of convert_video taken after a successful open
\* (normal end of the loop, early end of stream, an exception while
\* transforming or persisting a frame) the decoder handle is released exactly
\* once: not while the loop runs, once when it is left, and before the video
\* assembler is invoked.
C29_DecoderReleasedOnce ==
    /\ InFrameLoop => released = 0
    /\ LeftFrameLoop => released = 1
    /\ assembler_calls > 0 => released = 1

\* a run that processed a frame and was then aborted by an exception while
\* transforming or persisting the next one
C29_Witness ==
    /\ pc = "Failed"
    /\ fault # <<>>
    /\ frame_number >= 1
    /\ released = 1

====
